---- MODULE Spec2Model ----
(***************************************************************************)
(* gitbot: the webhook endpoint ("/") and the revert API ("/api/revert")   *)
(* of src/gitbot/deployhook.py, together with the git state they act on    *)
(* (two remotes, two shared checkouts, one ephemeral clone per revert).    *)
(*                                                                         *)
(* Conventions.  An optional value (Python None, a missing key, a missing  *)
(* header) is the empty sequence << >> and a present value v is <<v>>.     *)
(* Strings that the code searches or rewrites are sequences of tokens.     *)
(* A repository name "owner/name" is the pair <<owner, name>>.             *)
(***************************************************************************)
EXTENDS Integers, Sequences, FiniteSets, TLC

\* ------------------------------------------------------------------ bounds
MaxRequests == 1
MaxExternal == 1

\* ----------------------------------------------------------- small helpers
None == << >>
Some(v) == <<v>>
Last(s) == s[Len(s)]
IsPrefix(a, b) == Len(a) <= Len(b) /\ SubSeq(b, 1, Len(a)) = a
Contains(s, t) == \E i \in 1..Len(s) : s[i] = t
StartsWith(s, p) == Len(p) <= Len(s) /\ SubSeq(s, 1, Len(p)) = p

\* ------------------------------------------ configuration (gitbot.config)
Workers == {"w1"}
Envs == {"development", "staging", "production"}
WebhookSecrets == {"", "k1"}
ApiSecrets == {"", "k1", "k2"}
SENTRY_REPO_UPSTREAM == <<"getsentry", "sentry">>
GETSENTRY_BRANCH == "master"
GITBOT_MARKER == "#sync-getsentry"
QUOTE == "\""
BUMP_PREFIX == <<"getsentry/sentry", "@">>

VARIABLES
    config,     \* ENV, DRY_RUN and the two secrets, fixed at boot
    remote,     \* remote[repo][branch]: the commits of that remote branch
    checkout,   \* checkout[repo]: master of the shared local checkout
    nextSha,    \* the next fresh commit id
    lock,       \* holder of the dependent checkout's bump lock, or None
    pc,         \* pc[w]: where worker w is in its request
    req,        \* req[w]: the request worker w is serving
    loc,        \* loc[w]: the locals of the handler worker w runs
    resp,       \* resp[w]: the response worker w sent
    served,     \* requests accepted so far
    extPushes   \* pushes made by others to the remotes so far

vars == <<config, remote, checkout, nextSha, lock, pc, req, loc, resp, served, extPushes>>

IS_DEV == config.ENV = "development"
DRY_RUN == config.DRY_RUN
GITHUB_WEBHOOK_SECRET == config.GITHUB_WEBHOOK_SECRET
GITBOT_API_SECRET == config.GITBOT_API_SECRET

\* boot(): outside development both secrets must be set.
BootOk(c) ==
    c.ENV # "development" => c.GITHUB_WEBHOOK_SECRET # "" /\ c.GITBOT_API_SECRET # ""

Configs ==
    { c \in [ENV : Envs, DRY_RUN : BOOLEAN,
             GITHUB_WEBHOOK_SECRET : WebhookSecrets,
             GITBOT_API_SECRET : ApiSecrets] : BootOk(c) }

\* ------------------------------------------------------------- git state
Repos == {"sentry", "getsentry"}
Branches == {"master", "feature-x"}
RefShas == {"aaa", "bbb"}

\* A commit: id, subject line, the "This reverts commit" paragraph (the id
\* it names), the co-author/author trailer, and the pinned sentry sha of the
\* tree after the commit (the dependent repository only).
MkCommit(sha, subject, reverts, coauthor, pin) ==
    [sha |-> sha, subject |-> subject, reverts |-> reverts,
     coauthor |-> coauthor, pin |-> pin]

InitSentry ==
    << MkCommit(1, <<"Fix bug (#42)">>, None, None, None),
       MkCommit(2, <<"Revert ", QUOTE, "ref(snql) Update SDK (#26638)", QUOTE>>,
                None, None, None) >>

InitGetsentry ==
    << MkCommit(3, <<"feat(billing): Add plan">>, None, None, Some("000")),
       MkCommit(4, BUMP_PREFIX \o <<"aaa">>, None, None, Some("aaa")) >>

PinOfRoot(history) == history[1].pin[1]

Pin(history) == Last(history).pin[1]
Tip(history) == Last(history).sha
HasCommit(history, sha) == \E i \in 1..Len(history) : history[i].sha = sha
CommitOf(history, sha) ==
    history[CHOOSE i \in 1..Len(history) : history[i].sha = sha]

\* --------------------------------------------------------- worker records
NoReq == [endpoint |-> "", event |-> None, header |-> None, args |-> None, data |-> None]
NoLoc == [caller |-> "", bump |-> None, updated |-> None, reason |-> None,
          tmp |-> None, subject |-> None, bumps |-> << >>, cmds |-> << >>,
          syncs |-> << >>, failed |-> None, tmp_dir |-> None]
NoResp == [status |-> 0, reason |-> None, revert_sha |-> None, reported |-> FALSE]

InitOf(pool, configs) ==
    /\ config \in configs
    /\ remote = [r \in Repos |->
                   [b \in Branches |->
                      IF b = "master"
                      THEN (IF r = "sentry" THEN InitSentry ELSE InitGetsentry)
                      ELSE << >>]]
    /\ checkout = [r \in Repos |-> IF r = "sentry" THEN InitSentry ELSE InitGetsentry]
    /\ nextSha = 5
    /\ lock = None
    /\ pc = [w \in pool |-> "idle"]
    /\ req = [w \in pool |-> NoReq]
    /\ loc = [w \in pool |-> NoLoc]
    /\ resp = [w \in pool |-> NoResp]
    /\ served = 0
    /\ extPushes = 0

Init == InitOf(Workers, Configs)

\* -------------------------------------------------------------- responses
Reason(text) == [sha |-> None, text |-> text]
ShaReason(sha, text) == [sha |-> Some(sha), text |-> text]

\* respond(data, status_code): the JSON body and the status; anything but
\* 200 is also reported to the error sink.
respond(reason, revert_sha, status_code) ==
    [status |-> status_code, reason |-> Some(reason), revert_sha |-> revert_sha,
     reported |-> status_code # 200]

\* An exception that leaves the view function: the framework answers 500.
ServerError ==
    [status |-> 500, reason |-> Some(Reason("Internal Server Error")),
     revert_sha |-> None, reported |-> TRUE]

\* ---------------------------------------------------- signature verifier
\* HMAC-SHA1 as an ideal MAC: two digests are equal iff key and message are.
Hmac(secret, payload) == [key |-> secret, msg |-> payload]

\* The bytes of the request in hand, and some other bytes.
RawBody == "body"
OtherBody == "tampered"

\* The signature header the endpoint reads (X-Hub-Signature on "/",
\* X-Signature on "/api/revert"): None when it is missing, else its value
\* "sha1=<hex>" or "<hex>".
SigHeaders ==
    { None,
      Some([prefix |-> TRUE, hex |-> Hmac("k1", RawBody)]),
      Some([prefix |-> TRUE, hex |-> Hmac("k2", RawBody)]),
      Some([prefix |-> FALSE, hex |-> Hmac("k1", RawBody)]),
      Some([prefix |-> TRUE, hex |-> Hmac("k1", OtherBody)]) }

\* str(request.headers.get(name, "").replace("sha1=", ""))
HeaderSignature(header) ==
    IF header = None THEN None ELSE Some(header[1].hex)

valid_payload(secret, payload, signature) ==
    Some(Hmac(secret, payload)) = signature

\* The test client (ingest.py): signature(secret, payload) and the header
\* each of its two request builders attaches.
signature(secret, payload) == Hmac(secret, payload)

revert_payload_header ==
    IF GITBOT_API_SECRET # ""
    THEN Some([prefix |-> TRUE, hex |-> signature(GITBOT_API_SECRET, RawBody)])
    ELSE None

bump_payload_header ==
    IF GITHUB_WEBHOOK_SECRET # ""
    THEN Some([prefix |-> TRUE, hex |-> signature(GITHUB_WEBHOOK_SECRET, RawBody)])
    ELSE None

\* ----------------------------------------------------------- the remotes
\* git push of `local` to a remote branch holding `there`: accepted iff it
\* is a fast-forward.  --dry-run reports the same but updates nothing.
PushAcceptedAlways(local, there) == TRUE

PushAccepted(local, there) == IsPrefix(there, local)

PushedAlways(local, there, dry) == local

PushedNothing(local, there, dry) == there

Pushed(local, there, dry) == IF dry THEN there ELSE local

\* Somebody else pushes a commit to a remote's master.
ExternalPush(r) ==
    /\ extPushes < MaxExternal
    /\ extPushes' = extPushes + 1
    /\ LET c == MkCommit(nextSha, <<"chore: unrelated change">>, None, None,
                         Last(remote[r]["master"]).pin)
       IN remote' = [remote EXCEPT ![r]["master"] = Append(@, c)]
    /\ nextSha' = nextSha + 1
    /\ UNCHANGED <<config, checkout, lock, pc, req, loc, resp, served>>

\* update_checkout(repo_url, checkout): bring the shared checkout to the
\* remote's master; it can fail (remote unreachable, checkout corrupted).
update_checkout(r) == [checkout EXCEPT ![r] = remote[r]["master"]]

\* ------------------------------------------------------ webhook payloads
\* request.args.get("branches"): None, or the comma-separated names.
BranchesArgs == {None, Some(<<"feature-x">>)}

Ref(kind, name) == <<"refs", kind, name>>
PushRefs == {None, Some(Ref("heads", "master")), Some(Ref("heads", "feature-x"))}

RepoNames == {SENTRY_REPO_UPSTREAM, <<"fork", "sentry">>, <<"getsentry", "getsentry">>}
Authors == {"Ada <ada@example.com>"}

\* head_commit: the key is missing, or null, or a commit with an id.
HeadCommit(id, author) == [present |-> TRUE, value |-> Some([id |-> id, author |-> author])]
HeadCommits ==
    { [present |-> FALSE, value |-> None], [present |-> TRUE, value |-> None],
      HeadCommit(None, None), HeadCommit(Some("aaa"), Some("Ada <ada@example.com>")),
      HeadCommit(Some("bbb"), None) }

PushPayloads ==
    [ref : PushRefs,
     repository : {None} \cup {Some([full_name |-> n]) : n \in RepoNames},
     head_commit : HeadCommits]

PrActions == {"opened", "synchronize", "closed"}
PrBodies == {None, Some(<<"Fixes the thing.">>),
             Some(<<"Fixes the thing.", GITBOT_MARKER>>)}
Fork == <<"fork", "sentry">>
FullName(n) == [full_name |-> n]

\* (event repository, head repository, base repository)
PrRepos ==
    { <<SENTRY_REPO_UPSTREAM, SENTRY_REPO_UPSTREAM, SENTRY_REPO_UPSTREAM>>,
      <<Fork, SENTRY_REPO_UPSTREAM, SENTRY_REPO_UPSTREAM>>,
      <<SENTRY_REPO_UPSTREAM, Fork, SENTRY_REPO_UPSTREAM>>,
      <<SENTRY_REPO_UPSTREAM, SENTRY_REPO_UPSTREAM, Fork>> }

PullRequestPayloads ==
    { [action |-> a,
       repository |-> FullName(r[1]),
       pull_request |->
          [head |-> [repo |-> FullName(r[2]), sha |-> s, ref |-> "feature-x"],
           base |-> [repo |-> FullName(r[3])],
           merged |-> m,
           body |-> b]] :
      a \in PrActions, r \in PrRepos, s \in {None} \cup {Some(x) : x \in RefShas},
      m \in BOOLEAN, b \in PrBodies }

PrSameRepoOf(p) ==
    /\ p.repository.full_name = SENTRY_REPO_UPSTREAM
    /\ p.pull_request.head.repo.full_name = SENTRY_REPO_UPSTREAM
    /\ p.pull_request.base.repo.full_name = SENTRY_REPO_UPSTREAM

OtherEvents == {None, Some("ping")}

\* --------------------------------------------------------- event router
\* set(f"refs/heads/{x}" for x in (args.get("branches") or
\*     "master,test-branch").split(","))
DefaultBranches == {Ref("heads", x) : x \in {"master", "test-branch"}}

TrackedBranches(args) ==
    IF args = None THEN DefaultBranches
    ELSE {Ref("heads", args[1][i]) : i \in 1..Len(args[1])}

\* data.get("ref") not in branches
UntrackedOnlyMissing(data, args) == data.ref = None

Untracked(data, args) ==
    data.ref = None \/ data.ref[1] \notin TrackedBranches(args)

\* data.get("head_commit", {}).get("id")
RefSha(data) ==
    IF data.head_commit.value = None THEN None ELSE data.head_commit.value[1].id

\* extract_author(data)
extract_author(data) == data.head_commit.value[1].author

\* (IS_DEV and repo.split("/")[1] == "sentry") or (repo == SENTRY_REPO_UPSTREAM)
RecognizedSource(repo) ==
    (IS_DEV /\ repo[2] = "sentry") \/ repo = SENTRY_REPO_UPSTREAM

\* The call bump_version(branch, ref_sha, author): the arguments as passed.
BumpArgs(branch, ref_sha, author) ==
    [branch |-> branch, ref_sha |-> ref_sha, author |-> author]

\* What a handler does before it either answers or calls bump_version:
\* an answer (resp) or the arguments of the call (bump).
Answer(r) == [resp |-> Some(r), bump |-> None]
Call(args) == [resp |-> None, bump |-> Some(args)]

\* 200 if updated else 400
StatusForAlwaysOk(updated) == 200

StatusFor(updated) == IF updated THEN 200 ELSE 400

\* process_push(), up to the call of bump_version
process_push(data, args) ==
    IF Untracked(data, args)
    THEN Answer(respond(Reason("Commit against untracked branch."), None, 200))
    ELSE IF data.repository = None THEN Answer(ServerError)
    ELSE IF data.head_commit.present /\ data.head_commit.value = None
    THEN Answer(ServerError)
    ELSE IF RefSha(data) = None
    THEN Answer(respond(Reason("Commit not relevant for deploy sync."), None, StatusFor(TRUE)))
    ELSE IF RecognizedSource(data.repository[1].full_name)
    THEN Call(BumpArgs(GETSENTRY_BRANCH, RefSha(data)[1], extract_author(data)))
    ELSE Answer(respond(Reason("Unknown repository"), None, StatusFor(TRUE)))

\* body.find(GITBOT_MARKER) == -1, with body = pull_request["body"] or ""
MarkerMissingNever(body) == FALSE

MarkerMissing(body) == body = None \/ ~Contains(body[1], GITBOT_MARKER)

\* action not in ["synchronize", "opened"]
UnsupportedActionNever(action) == FALSE

UnsupportedAction(action) == action \notin {"synchronize", "opened"}

\* process_pull_request(), up to the call of bump_version
process_pull_request(data) ==
    LET pull_request == data.pull_request
        head == pull_request.head
        base == pull_request.base
    IN  IF UnsupportedAction(data.action)
        THEN Answer(respond(Reason("Unsupported action for pull_request event."), None, 200))
        ELSE IF ~IS_DEV /\ data.repository.full_name # SENTRY_REPO_UPSTREAM
        THEN Answer(respond(Reason("Unknown repository"), None, 200))
        ELSE IF ~IS_DEV /\ (\/ head.repo.full_name # SENTRY_REPO_UPSTREAM
                            \/ base.repo.full_name # SENTRY_REPO_UPSTREAM)
        THEN Answer(respond(Reason("Invalid head or base repos."), None, 200))
        ELSE IF ~IS_DEV /\ pull_request.merged
        THEN Answer(respond(Reason("Pull request is already merged."), None, 200))
        ELSE IF MarkerMissing(pull_request.body)
        THEN Answer(respond(Reason("Deploy marker not found."), None, 200))
        ELSE IF head.sha # None
        THEN Call(BumpArgs(head.ref, head.sha[1], None))
        ELSE Answer(respond(Reason("Commit not relevant for deploy sync."), None, 200))

\* The secret an endpoint verifies against.
EndpointSecretShared(endpoint) == GITHUB_WEBHOOK_SECRET

EndpointSecret(endpoint) ==
    IF endpoint = "/" THEN GITHUB_WEBHOOK_SECRET ELSE GITBOT_API_SECRET

\* SECRET and not valid_payload(SECRET, request.data, <signature header>)
SignatureRejectedLax(endpoint, header) ==
    /\ EndpointSecret(endpoint) # ""
    /\ header # None
    /\ ~valid_payload(EndpointSecret(endpoint), RawBody, HeaderSignature(header))

SignatureRejected(endpoint, header) ==
    /\ EndpointSecret(endpoint) # ""
    /\ ~valid_payload(EndpointSecret(endpoint), RawBody, HeaderSignature(header))

\* ------------------------------------------------------ request life cycle
\* Each worker of the pool can take a request; MaxRequests - 1 more follow.
Accept(w, endpoint, header) ==
    /\ pc[w] = "idle"
    /\ served < MaxRequests + Cardinality(DOMAIN pc) - 1
    /\ served' = served + 1
    /\ req' = [req EXCEPT ![w] = [NoReq EXCEPT !.endpoint = endpoint, !.header = header]]

Finish(w, response) ==
    /\ pc' = [pc EXCEPT ![w] = "done"]
    /\ resp' = [resp EXCEPT ![w] = response]

\* The connection is closed; the worker is free for the next request.
Release(w) ==
    /\ pc[w] = "done"
    /\ pc' = [pc EXCEPT ![w] = "idle"]
    /\ req' = [req EXCEPT ![w] = NoReq]
    /\ loc' = [loc EXCEPT ![w] = NoLoc]
    /\ resp' = [resp EXCEPT ![w] = NoResp]
    /\ UNCHANGED <<config, remote, checkout, nextSha, lock, served, extPushes>>

\* index(): verify the signature, then route on X-GitHub-Event.
IndexFrom(w, headers) ==
    \E header \in headers :
        /\ Accept(w, "/", header)
        /\ IF SignatureRejected("/", header)
           THEN Finish(w, respond(Reason("Cannot validate payload signature."), None, 403))
           ELSE /\ pc' = [pc EXCEPT ![w] = "routing"]
                /\ UNCHANGED resp
        /\ UNCHANGED <<config, remote, checkout, nextSha, lock, loc, extPushes>>

Index(w) == IndexFrom(w, SigHeaders)

\* A handler has decided: answer now, or enter bump_version.
Decide(w, caller, outcome) ==
    IF outcome.bump = None
    THEN /\ Finish(w, outcome.resp[1])
         /\ UNCHANGED loc
    ELSE /\ pc' = [pc EXCEPT ![w] = "bump_lock"]
         /\ loc' = [loc EXCEPT ![w].caller = caller,
                               ![w].bump = outcome.bump,
                               ![w].bumps = Append(@, outcome.bump[1])]
         /\ UNCHANGED resp

ProcessPushOf(w, argsSet, payloads) ==
    /\ pc[w] = "routing"
    /\ \E args \in argsSet, data \in payloads :
        /\ req' = [req EXCEPT ![w].event = Some("push"), ![w].args = args,
                              ![w].data = Some(data)]
        /\ Decide(w, "push", process_push(data, args))
    /\ UNCHANGED <<config, remote, checkout, nextSha, lock, served, extPushes>>

ProcessPush(w) == ProcessPushOf(w, BranchesArgs, PushPayloads)

ProcessPullRequestOf(w, payloads) ==
    /\ pc[w] = "routing"
    /\ \E data \in payloads :
        /\ req' = [req EXCEPT ![w].event = Some("pull_request"), ![w].data = Some(data)]
        /\ Decide(w, "pull_request", process_pull_request(data))
    /\ UNCHANGED <<config, remote, checkout, nextSha, lock, served, extPushes>>

ProcessPullRequest(w) == ProcessPullRequestOf(w, PullRequestPayloads)

UnsupportedEvent(w) ==
    /\ pc[w] = "routing"
    /\ \E e \in OtherEvents :
        /\ req' = [req EXCEPT ![w].event = e]
        /\ Finish(w, respond(Reason("Unsupported event type."), None, 200))
    /\ UNCHANGED <<config, remote, checkout, nextSha, lock, loc, served, extPushes>>

\* ------------------------------------------------- version bump protocol
\* bump_version(branch, ref_sha, author) -> (updated, reason), on the shared
\* checkout of the dependent repository, under its lock.
\* if ENV == "staging": ... sync_with_upstream(...), in process_push only
SyncsUpstreamAnywhere(caller) == caller = "push"

SyncsUpstream(caller) == caller = "push" /\ config.ENV = "staging"

Return(w, cmd, updated, reason) ==
    /\ lock' = None
    /\ loc' = [loc EXCEPT ![w].updated = Some(updated), ![w].reason = Some(reason),
                          ![w].cmds = Append(@, cmd)]
    /\ IF SyncsUpstream(loc[w].caller)
       THEN /\ pc' = [pc EXCEPT ![w] = "push_sync"]
            /\ UNCHANGED resp
       ELSE Finish(w, respond(reason, None, StatusFor(updated)))

BumpLockNotHeld(w) ==
    /\ pc[w] = "bump_lock"
    /\ lock' = Some(w)
    /\ pc' = [pc EXCEPT ![w] = "bump_update"]
    /\ UNCHANGED <<config, remote, checkout, nextSha, req, loc, resp, served, extPushes>>

BumpLock(w) ==
    /\ pc[w] = "bump_lock"
    /\ lock = None
    /\ lock' = Some(w)
    /\ pc' = [pc EXCEPT ![w] = "bump_update"]
    /\ UNCHANGED <<config, remote, checkout, nextSha, req, loc, resp, served, extPushes>>

BumpUpdate(w) ==
    /\ pc[w] = "bump_update"
    /\ loc' = [loc EXCEPT ![w].cmds = Append(@, "update_checkout")]
    /\ \/ /\ checkout' = update_checkout("getsentry")
          /\ pc' = [pc EXCEPT ![w] = "bump_commit"]
          /\ UNCHANGED <<lock, resp>>
       \/ /\ lock' = None
          /\ Finish(w, ServerError)
          /\ UNCHANGED checkout
    /\ UNCHANGED <<config, remote, nextSha, req, served, extPushes>>

BumpCommit(w) ==
    /\ pc[w] = "bump_commit"
    /\ LET b == loc[w].bump[1] IN
       IF Pin(checkout["getsentry"]) = b.ref_sha
       THEN /\ Return(w, "read_pin", FALSE, Reason("Commit not relevant for deploy sync."))
            /\ UNCHANGED <<checkout, nextSha>>
       ELSE /\ checkout' = [checkout EXCEPT !["getsentry"] =
                    Append(@, MkCommit(nextSha, BUMP_PREFIX \o <<b.ref_sha>>, None,
                                       b.author, Some(b.ref_sha)))]
            /\ nextSha' = nextSha + 1
            /\ loc' = [loc EXCEPT ![w].cmds = Append(@, "commit")]
            /\ pc' = [pc EXCEPT ![w] = "bump_push"]
            /\ UNCHANGED <<lock, resp>>
    /\ UNCHANGED <<config, remote, req, served, extPushes>>

BumpPush(w) ==
    /\ pc[w] = "bump_push"
    /\ LET b == loc[w].bump[1]
           local == checkout["getsentry"]
           there == remote["getsentry"][b.branch]
       IN  IF PushAccepted(local, there)
           THEN /\ remote' = [remote EXCEPT !["getsentry"][b.branch] =
                                  Pushed(local, there, DRY_RUN)]
                /\ Return(w, "push", TRUE, Reason("Updated the dependent repository."))
           ELSE /\ Return(w, "push", FALSE, Reason("Failed to push the bump."))
                /\ UNCHANGED remote
    /\ UNCHANGED <<config, checkout, nextSha, req, served, extPushes>>

\* Staging only: sync_with_upstream(...) inside try/except, then respond.
SyncWithUpstreamUncaught(w) ==
    /\ pc[w] = "push_sync"
    /\ \E ok \in BOOLEAN :
          /\ loc' = [loc EXCEPT ![w].syncs = Append(@, ok)]
          /\ IF ok
             THEN Finish(w, respond(loc[w].reason[1], None, StatusFor(loc[w].updated[1])))
             ELSE Finish(w, ServerError)
    /\ UNCHANGED <<config, remote, checkout, nextSha, lock, req, served, extPushes>>

SyncWithUpstream(w) ==
    /\ pc[w] = "push_sync"
    /\ \E ok \in BOOLEAN :
          loc' = [loc EXCEPT ![w].syncs = Append(@, ok)]
    /\ Finish(w, respond(loc[w].reason[1], None, StatusFor(loc[w].updated[1])))
    /\ UNCHANGED <<config, remote, checkout, nextSha, lock, req, served, extPushes>>

\* --------------------------------------------------------- revert workflow
RevertRepos == {"sentry", "getsentry"}
RevertPayloads ==
    [repo : RevertRepos, sha : 1..(nextSha - 1), name : Authors]

\* execution.stdout.replace('"', "")
StripQuotes(stdout) == SelectSeq(stdout, LAMBDA t : t # QUOTE)

\* repo == "getsentry" and subject.startswith("getsentry/sentry@")
CrossRepoGuardOff(repo, subject) == FALSE

CrossRepoGuard(repo, subject) ==
    repo = "getsentry" /\ StartsWith(subject, BUMP_PREFIX)

\* git commit -m 'Revert "{subject}"' -m "This reverts commit {sha}."
\*            -m "Co-authored-by: {name}"
RevertCommitNoTrailer(new, subject, sha, name, pin) ==
    MkCommit(new, <<"Revert ", QUOTE>> \o subject \o <<QUOTE>>, Some(sha), None, pin)

RevertCommit(new, subject, sha, name, pin) ==
    MkCommit(new, <<"Revert ", QUOTE>> \o subject \o <<QUOTE>>, Some(sha), Some(name), pin)

\* run(...) raised CommandError: revert() answers "Failed to revert."
FailedUncaught(w, cmd) ==
    /\ loc' = [loc EXCEPT ![w].cmds = Append(@, cmd), ![w].failed = Some(cmd)]
    /\ Finish(w, ServerError)

Failed(w, cmd) ==
    /\ loc' = [loc EXCEPT ![w].cmds = Append(@, cmd), ![w].failed = Some(cmd)]
    /\ Finish(w, respond(Reason("Failed to revert."), None, 400))

Ran(w, cmd, next) ==
    /\ pc' = [pc EXCEPT ![w] = next]
    /\ UNCHANGED resp

\* tempfile.mkdtemp(): a directory that did not exist; `existing` are the
\* directories of the requests in hand.
TmpDirs == { loc[v].tmp_dir[1] : v \in { u \in DOMAIN pc : loc[u].tmp_dir # None } }

mkdtempReused(existing) == 1

mkdtemp(existing) ==
    CHOOSE d \in 1..(Cardinality(existing) + 1) : d \notin existing

\* revert(): verify the signature, then process_git_revert() up to mkdtemp().
RevertFrom(w, headers) ==
    \E header \in headers :
        /\ Accept(w, "/api/revert", header)
        /\ IF SignatureRejected("/api/revert", header)
           THEN /\ Finish(w, respond(Reason("Cannot validate payload signature."), None, 403))
                /\ UNCHANGED loc
           ELSE /\ loc' = [loc EXCEPT ![w].tmp_dir = Some(mkdtemp(TmpDirs))]
                /\ pc' = [pc EXCEPT ![w] = "revert_update"]
                /\ UNCHANGED resp
        /\ UNCHANGED <<config, remote, checkout, nextSha, lock, extPushes>>

Revert(w) == RevertFrom(w, SigHeaders)

\* data = request.get_json(); update_checkout(repo_url, checkout)
RevertUpdateOf(w, payloads) ==
    /\ pc[w] = "revert_update"
    /\ \E data \in payloads :
        /\ req' = [req EXCEPT ![w].data = Some(data)]
        /\ \/ /\ checkout' = update_checkout(data.repo)
              /\ loc' = [loc EXCEPT ![w].cmds = Append(@, "update_checkout")]
              /\ Ran(w, "update_checkout", "revert_clone")
           \/ /\ Failed(w, "update_checkout")
              /\ UNCHANGED checkout
    /\ UNCHANGED <<config, remote, nextSha, lock, served, extPushes>>

RevertUpdate(w) == RevertUpdateOf(w, RevertPayloads)

\* git clone {checkout} {tmp_dir}
RevertClone(w) ==
    /\ pc[w] = "revert_clone"
    /\ LET here == checkout[req[w].data[1].repo] IN
       \/ /\ loc' = [loc EXCEPT ![w].cmds = Append(@, "clone"),
                                ![w].tmp = Some([head |-> here, origin |-> here])]
          /\ Ran(w, "clone", "revert_log")
       \/ Failed(w, "clone")
    /\ UNCHANGED <<config, remote, checkout, nextSha, lock, req, served, extPushes>>

\* git log -1 --format="%s" {sha}, then the cross-repo guard
RevertLog(w) ==
    /\ pc[w] = "revert_log"
    /\ LET data == req[w].data[1]
           tmp == loc[w].tmp[1]
       IN  IF ~HasCommit(tmp.head, data.sha)
           THEN Failed(w, "log")
           ELSE LET subject == StripQuotes(CommitOf(tmp.head, data.sha).subject) IN
                IF CrossRepoGuard(data.repo, subject)
                THEN /\ loc' = [loc EXCEPT ![w].cmds = Append(@, "log"),
                                           ![w].subject = Some(subject)]
                     /\ Finish(w, respond(
                            ShaReason(data.sha,
                              "cannot be reverted because it needs to be reverted in Sentry"),
                            None, 400))
                ELSE /\ loc' = [loc EXCEPT ![w].cmds = Append(@, "log"),
                                           ![w].subject = Some(subject)]
                     /\ Ran(w, "log", "revert_revert")
    /\ UNCHANGED <<config, remote, checkout, nextSha, lock, req, served, extPushes>>

\* git revert --no-commit {sha}
RevertNoCommit(w) ==
    /\ pc[w] = "revert_revert"
    /\ \/ /\ loc' = [loc EXCEPT ![w].cmds = Append(@, "revert")]
          /\ Ran(w, "revert", "revert_commit")
       \/ Failed(w, "revert")
    /\ UNCHANGED <<config, remote, checkout, nextSha, lock, req, served, extPushes>>

\* git commit -m ... -m ... -m ...
RevertGitCommit(w) ==
    /\ pc[w] = "revert_commit"
    /\ LET data == req[w].data[1]
           tmp == loc[w].tmp[1]
           c == RevertCommit(nextSha, loc[w].subject[1], data.sha, data.name,
                             Last(tmp.head).pin)
       IN  \/ /\ loc' = [loc EXCEPT ![w].cmds = Append(@, "commit"),
                                    ![w].tmp = Some([tmp EXCEPT !.head = Append(@, c)])]
              /\ nextSha' = nextSha + 1
              /\ Ran(w, "commit", "revert_push")
           \/ /\ Failed(w, "commit")
              /\ UNCHANGED nextSha
    /\ UNCHANGED <<config, remote, checkout, lock, req, served, extPushes>>

\* git push {repo_url} [--dry-run]
RevertPush(w) ==
    /\ pc[w] = "revert_push"
    /\ LET r == req[w].data[1].repo
           local == loc[w].tmp[1].head
           there == remote[r]["master"]
       IN  IF PushAccepted(local, there)
           THEN /\ remote' = [remote EXCEPT ![r]["master"] = Pushed(local, there, DRY_RUN)]
                /\ loc' = [loc EXCEPT ![w].cmds = Append(@, "push")]
                /\ Ran(w, "push", "revert_revparse")
           ELSE /\ Failed(w, "push")
                /\ UNCHANGED remote
    /\ UNCHANGED <<config, checkout, nextSha, lock, req, served, extPushes>>

\* git rev-parse origin/master, in the clone
RevParseOriginMaster(tmp) == Tip(tmp.origin)

RevertRevParse(w) ==
    /\ pc[w] = "revert_revparse"
    /\ LET data == req[w].data[1] IN
       \/ /\ loc' = [loc EXCEPT ![w].cmds = Append(@, "rev-parse")]
          /\ Finish(w, respond(ShaReason(data.sha, "reverted."),
                               Some(RevParseOriginMaster(loc[w].tmp[1])), 200))
       \/ Failed(w, "rev-parse")
    /\ UNCHANGED <<config, remote, checkout, nextSha, lock, req, served, extPushes>>

\* ---------------------------------------------------------- specification
Next ==
    \/ \E r \in Repos : ExternalPush(r)
    \/ \E w \in Workers :
        \/ Index(w)
        \/ ProcessPush(w)
        \/ ProcessPullRequest(w)
        \/ UnsupportedEvent(w)
        \/ BumpLock(w)
        \/ BumpUpdate(w)
        \/ BumpCommit(w)
        \/ BumpPush(w)
        \/ SyncWithUpstream(w)
        \/ Revert(w)
        \/ RevertUpdate(w)
        \/ RevertClone(w)
        \/ RevertLog(w)
        \/ RevertNoCommit(w)
        \/ RevertGitCommit(w)
        \/ RevertPush(w)
        \/ RevertRevParse(w)
        \/ Release(w)

Spec == Init /\ [][Next]_vars

\* ------------------------------------------- two workers, bumps only
\* Two workers of the web server take webhook events at the same time; every
\* event is signed as the test client signs it and asks for a bump.
Pool == {"w1", "w2"}

BumpPushPayloads ==
    { [ref |-> Some(Ref("heads", "master")),
       repository |-> Some(FullName(SENTRY_REPO_UPSTREAM)),
       head_commit |-> h] :
        h \in { HeadCommit(Some("aaa"), Some("Ada <ada@example.com>")),
                HeadCommit(Some("bbb"), None) } }

BumpPullRequestPayloads ==
    { p \in PullRequestPayloads :
        /\ p.action = "opened"
        /\ PrSameRepoOf(p)
        /\ ~p.pull_request.merged
        /\ p.pull_request.body = Some(<<"Fixes the thing.", GITBOT_MARKER>>)
        /\ p.pull_request.head.sha = Some("bbb") }

\* The secret of the revert API plays no part in a webhook event.
BumpConfigs == { c \in Configs : c.GITBOT_API_SECRET = "k1" }

InitBumps == InitOf(Pool, BumpConfigs)

NextBumps ==
    \/ ExternalPush("getsentry")
    \/ \E w \in Pool :
        \/ IndexFrom(w, {bump_payload_header})
        \/ ProcessPushOf(w, {None}, BumpPushPayloads)
        \/ ProcessPullRequestOf(w, BumpPullRequestPayloads)
        \/ BumpLock(w)
        \/ BumpUpdate(w)
        \/ BumpCommit(w)
        \/ BumpPush(w)
        \/ SyncWithUpstream(w)
        \/ Release(w)

SpecBumps == InitBumps /\ [][NextBumps]_vars

\* ------------------------------------------ two workers, reverts only
ConcRevertPayloads ==
    [repo : RevertRepos, sha : {1, 3}, name : Authors]

\* ENV and the webhook secret play no part in a revert request.
RevertConfigs == { c \in Configs : c.ENV = "production" }

InitReverts == InitOf(Pool, RevertConfigs)

NextReverts ==
    \/ ExternalPush("sentry")
    \/ \E w \in Pool :
        \/ RevertFrom(w, {revert_payload_header})
        \/ RevertUpdateOf(w, ConcRevertPayloads)
        \/ RevertClone(w)
        \/ RevertLog(w)
        \/ RevertNoCommit(w)
        \/ RevertGitCommit(w)
        \/ RevertPush(w)
        \/ RevertRevParse(w)
        \/ Release(w)

SpecReverts == InitReverts /\ [][NextReverts]_vars

\* ================================================================= claims
Answered(w) == pc[w] = "done"
OnWebhook(w) == req[w].endpoint = "/"
OnRevertApi(w) == req[w].endpoint = "/api/revert"
IsPush(w) == OnWebhook(w) /\ req[w].event = Some("push")
IsPullRequest(w) == OnWebhook(w) /\ req[w].event = Some("pull_request")
Data(w) == req[w].data[1]
BumpCalls(w) == loc[w].bumps
RanCmd(w, cmd) == Contains(loc[w].cmds, cmd)
PushFailed(w) ==
    /\ BumpCalls(w) # << >>
    /\ Len(loc[w].cmds) > 0
    /\ Last(loc[w].cmds) = "push"
    /\ loc[w].updated = Some(FALSE)

\* C1: on the webhook endpoint an event the handler answers with a failure
\* status is one whose bump was attempted and whose push failed; a bump that
\* found the pin already equal to the commit is answered 200.
C1_FailureOnlyAfterFailedPush ==
    \A w \in Workers :
        (Answered(w) /\ OnWebhook(w) /\ resp[w].status = 400) => PushFailed(w)

\* C2: a push event whose ref is not in the tracked-branch set is answered
\* 200 and never calls bump_version, whatever else the payload holds.
C2_UntrackedPushIsNoOp ==
    \A w \in Workers :
        (IsPush(w) /\ (Data(w).ref = None \/ Data(w).ref[1] \notin TrackedBranches(req[w].args)))
            => /\ Answered(w)
               /\ resp[w].status = 200
               /\ resp[w].reason = Some(Reason("Commit against untracked branch."))
               /\ BumpCalls(w) = << >>
               /\ loc[w].cmds = << >>

C2_Witness ==
    \E w \in Workers :
        /\ IsPush(w) /\ Answered(w)
        /\ req[w].args = None
        /\ Data(w).ref = Some(Ref("heads", "feature-x"))
        /\ Data(w).repository = None
        /\ Data(w).head_commit = [present |-> TRUE, value |-> None]
        /\ resp[w].status = 200

\* The eligibility conditions of a pull_request event, from its payload.
PrSameRepo(d) ==
    /\ d.repository.full_name = SENTRY_REPO_UPSTREAM
    /\ d.pull_request.head.repo.full_name = SENTRY_REPO_UPSTREAM
    /\ d.pull_request.base.repo.full_name = SENTRY_REPO_UPSTREAM
PrHasMarker(d) ==
    d.pull_request.body # None /\ Contains(d.pull_request.body[1], GITBOT_MARKER)
PrIneligible(d) ==
    \/ d.action \notin {"opened", "synchronize"}
    \/ config.ENV # "development" /\ (~PrSameRepo(d) \/ d.pull_request.merged)
    \/ ~PrHasMarker(d)
PrEligible(d) ==
    /\ d.action \in {"opened", "synchronize"}
    /\ PrHasMarker(d)
    /\ PrSameRepo(d)
    /\ ~d.pull_request.merged

\* C3: a pull_request event that fails any eligibility condition never calls
\* bump_version and is answered 200.
C3_IneligiblePullRequestIsNoOp ==
    \A w \in Workers :
        (IsPullRequest(w) /\ PrIneligible(Data(w)))
            => /\ Answered(w)
               /\ resp[w].status = 200
               /\ BumpCalls(w) = << >>
               /\ loc[w].cmds = << >>

C3_Witness ==
    \E w \in Workers :
        /\ IsPullRequest(w) /\ Answered(w)
        /\ config.ENV = "production"
        /\ Data(w).action = "opened"
        /\ PrHasMarker(Data(w)) /\ PrSameRepo(Data(w))
        /\ Data(w).pull_request.merged
        /\ Data(w).pull_request.head.sha # None
        /\ resp[w].status = 200
        /\ resp[w].reason = Some(Reason("Pull request is already merged."))

\* The one bump_version call of an eligible pull_request event, and its answer.
PrBumpedOnce(w) ==
    LET head == Data(w).pull_request.head IN
    /\ Len(BumpCalls(w)) = 1
    /\ BumpCalls(w)[1].branch = head.ref
    /\ Some(BumpCalls(w)[1].ref_sha) = head.sha
    /\ BumpCalls(w)[1].author = None
    /\ Answered(w) => (resp[w].status = 200 <=> loc[w].updated = Some(TRUE))

\* C4 (as claimed): every eligible pull_request event calls bump_version
\* exactly once with the head branch and head sha and no author, and is
\* answered 200 iff the bump returned updated=true.
C4_EligiblePullRequestBumpsOnce ==
    \A w \in Workers :
        (IsPullRequest(w) /\ PrEligible(Data(w))) => PrBumpedOnce(w)

\* C4 (amended): the same, for events whose head sha is not empty; with an
\* empty head sha the event is answered 200 and bump_version is not called.
C4_EligiblePullRequestWithShaBumpsOnce ==
    \A w \in Workers :
        (IsPullRequest(w) /\ PrEligible(Data(w)))
            => IF Data(w).pull_request.head.sha # None
               THEN PrBumpedOnce(w)
               ELSE /\ Answered(w)
                    /\ resp[w].status = 200
                    /\ BumpCalls(w) = << >>

C4_Witness ==
    \E w \in Workers :
        /\ IsPullRequest(w) /\ PrEligible(Data(w)) /\ Answered(w)
        /\ config.ENV = "production"
        /\ BumpCalls(w) = << BumpArgs("feature-x", "bbb", None) >>
        /\ loc[w].updated = Some(TRUE)
        /\ resp[w].status = 200

\* The subject of the commit a revert request names, as git log printed it.
TargetSubject(w) == CommitOf(loc[w].tmp[1].head, Data(w).sha).subject
IsBumpRevert(w) ==
    /\ OnRevertApi(w)
    /\ loc[w].subject # None
    /\ Data(w).repo = "getsentry"
    /\ StartsWith(TargetSubject(w), BUMP_PREFIX)

C6_RevertShaIsTheRevertCommit ==
    \A w \in Workers :
        (OnRevertApi(w) /\ Answered(w) /\ resp[w].status = 200 /\ ~DRY_RUN)
            => /\ resp[w].revert_sha = Some(Tip(loc[w].tmp[1].head))
               /\ resp[w].revert_sha # Some(Tip(loc[w].tmp[1].origin))

SucceededRevert(w) == OnRevertApi(w) /\ Answered(w) /\ resp[w].status = 200
RevertCommitOf(w) == Last(loc[w].tmp[1].head)
Quoted(subject) == <<"Revert ", QUOTE>> \o subject \o <<QUOTE>>

\* C7 (as claimed): the commit of a successful revert of s with subject S by
\* n has the subject Revert "S", names s in its body and n in its trailer.
C7_RevertMessageQuotesSubject ==
    \A w \in Workers :
        SucceededRevert(w)
            => /\ RevertCommitOf(w).subject = Quoted(TargetSubject(w))
               /\ RevertCommitOf(w).reverts = Some(Data(w).sha)
               /\ RevertCommitOf(w).coauthor = Some(Data(w).name)

\* C7 (amended): the subject is Revert "S'" with S' = S without its double
\* quotes (S itself when it has none); body and trailer as claimed; with
\* dry-run off that commit is on the remote.
C7_RevertMessageQuotesStrippedSubject ==
    \A w \in Workers :
        SucceededRevert(w)
            => /\ RevertCommitOf(w).subject = Quoted(StripQuotes(TargetSubject(w)))
               /\ ~Contains(TargetSubject(w), QUOTE)
                     => RevertCommitOf(w).subject = Quoted(TargetSubject(w))
               /\ RevertCommitOf(w).reverts = Some(Data(w).sha)
               /\ RevertCommitOf(w).coauthor = Some(Data(w).name)
               /\ ~DRY_RUN => \E i \in 1..Len(remote[Data(w).repo]["master"]) :
                                 remote[Data(w).repo]["master"][i] = RevertCommitOf(w)

C7_Witness ==
    \E w \in Workers :
        /\ SucceededRevert(w) /\ ~DRY_RUN
        /\ Data(w).repo = "sentry" /\ Data(w).sha = 1
        /\ Last(remote["sentry"]["master"]).subject = <<"Revert ", QUOTE, "Fix bug (#42)", QUOTE>>
        /\ Last(remote["sentry"]["master"]).reverts = Some(1)
        /\ Last(remote["sentry"]["master"]).coauthor = Some(Data(w).name)

SecretOf(w) ==
    IF OnWebhook(w) THEN config.GITHUB_WEBHOOK_SECRET ELSE config.GITBOT_API_SECRET
SignatureMatches(w, secret) ==
    req[w].header # None /\ req[w].header[1].hex = Hmac(secret, RawBody)
Rejected(w) ==
    /\ Answered(w)
    /\ resp[w].status = 403
    /\ resp[w].reason = Some(Reason("Cannot validate payload signature."))
Untouched(w) ==
    /\ req[w].event = None
    /\ req[w].data = None
    /\ loc[w] = NoLoc

\* C9: with the endpoint's secret set and a signature that is not the HMAC
\* of the body, the request is answered 403 before anything else happens;
\* with the secret empty the request is processed.
C9_BadSignatureIsRejectedFirst ==
    \A w \in Workers :
        req[w].endpoint # ""
            => /\ (SecretOf(w) # "" /\ ~SignatureMatches(w, SecretOf(w)))
                    => Rejected(w) /\ Untouched(w)
               /\ SecretOf(w) = "" => ~Rejected(w)

C9_Witness ==
    \E w \in Workers :
        /\ OnRevertApi(w)
        /\ config.GITBOT_API_SECRET = "k2"
        /\ req[w].header = None
        /\ Rejected(w)
        /\ remote["sentry"]["master"] = InitSentry
        /\ checkout["sentry"] = InitSentry

\* C10: the webhook endpoint decides on the webhook secret alone and the
\* revert API on the API secret alone; with two distinct secrets set, a body
\* signed with one is rejected at the other endpoint.
C10_SecretScopesAreIndependent ==
    \A w \in Workers :
        /\ OnWebhook(w)
             => /\ Rejected(w) <=> (config.GITHUB_WEBHOOK_SECRET # ""
                                    /\ ~SignatureMatches(w, config.GITHUB_WEBHOOK_SECRET))
                /\ (config.GITHUB_WEBHOOK_SECRET # ""
                    /\ config.GITBOT_API_SECRET # config.GITHUB_WEBHOOK_SECRET
                    /\ config.GITBOT_API_SECRET # ""
                    /\ req[w].header = revert_payload_header) => Rejected(w)
        /\ OnRevertApi(w)
             => /\ Rejected(w) <=> (config.GITBOT_API_SECRET # ""
                                    /\ ~SignatureMatches(w, config.GITBOT_API_SECRET))
                /\ (config.GITBOT_API_SECRET # ""
                    /\ config.GITHUB_WEBHOOK_SECRET # config.GITBOT_API_SECRET
                    /\ config.GITHUB_WEBHOOK_SECRET # ""
                    /\ req[w].header = bump_payload_header) => Rejected(w)

C10_Witness ==
    \E w \in Workers :
        /\ OnRevertApi(w)
        /\ config.GITHUB_WEBHOOK_SECRET = "k1"
        /\ config.GITBOT_API_SECRET = "k2"
        /\ req[w].header = bump_payload_header
        /\ Rejected(w)

\* The git commands of process_git_revert, in the order the code runs them.
RevertPipeline ==
    <<"update_checkout", "clone", "log", "revert", "commit", "push", "rev-parse">>

\* C11: the commands of a revert request run once each and in order; when
\* one of them fails it is the last command of the request (no push after a
\* failed revert or commit), the answer is "Failed to revert." with status
\* 400, and the worker can be released for the next request.
C11_FailedCommandEndsRevert ==
    \A w \in DOMAIN pc :
        OnRevertApi(w)
            => /\ IsPrefix(loc[w].cmds, RevertPipeline)
               /\ loc[w].failed # None
                    => /\ Answered(w)
                       /\ Last(loc[w].cmds) = loc[w].failed[1]
                       /\ loc[w].failed[1] \in {"revert", "commit"} => ~RanCmd(w, "push")
                       /\ resp[w] = [status |-> 400,
                                     reason |-> Some(Reason("Failed to revert.")),
                                     revert_sha |-> None, reported |-> TRUE]
                       /\ ENABLED Release(w)

C11_Witness ==
    \E w \in DOMAIN pc :
        /\ OnRevertApi(w) /\ Answered(w)
        /\ loc[w].failed = Some("commit")
        /\ loc[w].cmds = <<"update_checkout", "clone", "log", "revert", "commit">>
        /\ resp[w].status = 400
        /\ remote[Data(w).repo]["master"] = checkout[Data(w).repo]

\* The four policy rejections, from the request alone.
UntrackedPush(w) ==
    IsPush(w) /\ (Data(w).ref = None \/ Data(w).ref[1] \notin TrackedBranches(req[w].args))
MarkerAbsent(w) == IsPullRequest(w) /\ ~PrHasMarker(Data(w))
MergedPullRequest(w) ==
    IsPullRequest(w) /\ config.ENV # "development" /\ Data(w).pull_request.merged
PolicyRejection(w) ==
    UntrackedPush(w) \/ MarkerAbsent(w) \/ MergedPullRequest(w) \/ IsBumpRevert(w)
RejectionTexts ==
    { "Commit against untracked branch.", "Deploy marker not found.",
      "Pull request is already merged.", "Unsupported action for pull_request event.",
      "Unknown repository", "Invalid head or base repos.",
      "cannot be reverted because it needs to be reverted in Sentry" }
StructuredRejection(w) ==
    /\ Answered(w)
    /\ resp[w] # ServerError
    /\ resp[w].reason # None
    /\ resp[w].reason[1].text \in RejectionTexts
    /\ resp[w].revert_sha = None
    /\ BumpCalls(w) = << >>

\* C12 (as claimed): every policy rejection (untracked branch, deploy marker
\* absent, merged pull request, cross-repo guard of the revert workflow) is
\* answered with a structured result and the successful status 200.
C12_PolicyRejectionIsSuccessful ==
    \A w \in DOMAIN pc :
        PolicyRejection(w) => StructuredRejection(w) /\ resp[w].status = 200

\* C12 (amended): every policy rejection is answered with a structured
\* result, never an exception; the status is 200 for the three webhook
\* rejections and 400 (reported to the error sink) for the cross-repo guard.
C12_PolicyRejectionIsStructured ==
    \A w \in DOMAIN pc :
        PolicyRejection(w)
            => /\ StructuredRejection(w)
               /\ resp[w].status = (IF IsBumpRevert(w) THEN 400 ELSE 200)
               /\ resp[w].reported = IsBumpRevert(w)

C12_Witness ==
    \E w \in DOMAIN pc :
        /\ IsBumpRevert(w) /\ Answered(w) /\ DRY_RUN
        /\ resp[w].status = 400 /\ resp[w].reported
        /\ resp[w].reason = Some(ShaReason(4,
               "cannot be reverted because it needs to be reverted in Sentry"))

\* C13: a bump_version whose commitRef is the pin of the updated checkout
\* returns updated=false and makes no commit and no push: the checkout, the
\* remotes and the commit counter are as before, each time it is invoked.
C13_AppliedRefIsNoOp ==
    [][ \A w \in DOMAIN pc :
          ( /\ pc[w] = "bump_commit" /\ pc'[w] # "bump_commit"
            /\ Last(checkout["getsentry"]).pin = Some(loc[w].bump[1].ref_sha) )
            => /\ loc'[w].updated = Some(FALSE)
               /\ loc'[w].reason = Some(Reason("Commit not relevant for deploy sync."))
               /\ ~Contains(loc'[w].cmds, "commit")
               /\ ~Contains(loc'[w].cmds, "push")
               /\ pc'[w] \in {"done", "push_sync"}
               /\ checkout' = checkout
               /\ remote' = remote
               /\ nextSha' = nextSha ]_vars

C13_Witness ==
    \E w \in DOMAIN pc :
        /\ Answered(w)
        /\ BumpCalls(w) # << >> /\ BumpCalls(w)[1].ref_sha = "aaa"
        /\ loc[w].updated = Some(FALSE)
        /\ loc[w].cmds = <<"update_checkout", "read_pin">>
        /\ Last(checkout["getsentry"]).pin = Some("aaa")
        /\ remote["getsentry"]["feature-x"] = << >>
        /\ nextSha = 5

\* The step of worker w that leaves the program point `at`.
Leaves(w, at) == pc[w] = at /\ pc'[w] # at
PinAfter(history, ref_sha) == history # << >> /\ Last(history).pin = Some(ref_sha)

\* C14: a bump_version whose commitRef differs from the pin commits that
\* pin, and when it returns updated=true the pin of the dependent checkout
\* is commitRef, and so is the pin of the branch pushed to unless dry-run is
\* on; also with another worker's bump in flight.
C14_UpdatedMeansPinned ==
    [][ \A w \in DOMAIN pc :
          LET b == loc[w].bump[1] IN
          /\ (Leaves(w, "bump_commit") /\ Last(checkout["getsentry"]).pin # Some(b.ref_sha))
                => /\ pc'[w] = "bump_push"
                   /\ PinAfter(checkout'["getsentry"], b.ref_sha)
          /\ (Leaves(w, "bump_push") /\ loc'[w].updated = Some(TRUE))
                => /\ PinAfter(checkout'["getsentry"], b.ref_sha)
                   /\ ~DRY_RUN => PinAfter(remote'["getsentry"][b.branch], b.ref_sha) ]_vars

C14_Witness ==
    \E w, v \in DOMAIN pc :
        /\ w # v /\ ~DRY_RUN
        /\ Answered(w) /\ loc[w].updated = Some(TRUE)
        /\ BumpCalls(w) = << BumpArgs(GETSENTRY_BRANCH, "bbb", None) >>
        /\ PinAfter(remote["getsentry"]["master"], "bbb")
        /\ pc[v] = "bump_lock"
        /\ BumpCalls(v) = << BumpArgs(GETSENTRY_BRANCH, "aaa", Some("Ada <ada@example.com>")) >>

\* The workers inside the update checkout -> commit -> push section.
BumpSection == {"bump_update", "bump_commit", "bump_push"}
InBumpSection == { w \in DOMAIN pc : pc[w] \in BumpSection }

\* C15: at most one worker is inside the update checkout -> commit -> push
\* section of bump_version at a time, and it is the one holding the lock of
\* the dependent repository, whether the bumps come from push or
\* pull_request events.
C15_OneBumpAtATime ==
    /\ Cardinality(InBumpSection) <= 1
    /\ \A w \in InBumpSection : lock = Some(w)
    /\ InBumpSection = {} => lock = None

C15_Witness ==
    \E w, v \in DOMAIN pc :
        /\ w # v
        /\ pc[w] = "bump_push" /\ loc[w].caller = "push"
        /\ pc[v] = "bump_lock" /\ loc[v].caller = "pull_request"
        /\ lock = Some(w)

\* The ends of a request that called bump_version.
Bumped(w) == Answered(w) /\ BumpCalls(w) # << >>
EndedUpdated(w) == loc[w].updated = Some(TRUE) /\ resp[w].status = 200
EndedWith(w, text) ==
    /\ loc[w].updated = Some(FALSE)
    /\ loc[w].reason = Some(Reason(text))
    /\ resp[w] = respond(Reason(text), None, 400)
EndedInUpdateFault(w) ==
    /\ loc[w].updated = None
    /\ Last(loc[w].cmds) = "update_checkout"
    /\ resp[w] = ServerError
BothBump(w) == Bumped(w) /\ \E v \in DOMAIN pc \ {w} : BumpCalls(v) # << >>
FastForwardOnly ==
    \A r \in Repos, b \in Branches : IsPrefix(remote[r][b], remote'[r][b])

CloneSteps ==
    {"revert_clone", "revert_log", "revert_revert", "revert_commit", "revert_push",
     "revert_revparse"}

\* C17: revert requests in hand at the same time have distinct temporary
\* directories, and the clone, log, revert, commit, push and rev-parse steps
\* of a request leave the shared checkouts as they are: only the
\* update_checkout step of a request changes a shared checkout.
C17_RevertWorksInItsOwnDirectory ==
    /\ [](\A w, v \in DOMAIN pc :
            (w # v /\ loc[w].tmp_dir # None /\ loc[v].tmp_dir # None)
               => loc[w].tmp_dir # loc[v].tmp_dir)
    /\ [][ /\ \A w \in DOMAIN pc :
               (pc[w] \in CloneSteps /\ pc'[w] # pc[w]) => checkout' = checkout
           /\ checkout' # checkout
                 => \E w \in DOMAIN pc : pc[w] = "revert_update" /\ pc'[w] = "revert_clone" ]_vars

C17_Witness ==
    \E w, v \in DOMAIN pc :
        /\ w # v
        /\ pc[w] = "revert_push" /\ pc[v] = "revert_push"
        /\ Data(w).repo = "sentry" /\ Data(v).repo = "sentry"
        /\ loc[w].tmp_dir # loc[v].tmp_dir
        /\ Len(loc[w].tmp[1].head) = 3 /\ Len(loc[v].tmp[1].head) = 3
        /\ checkout["sentry"] = InitSentry

SyncAttempted(w) == loc[w].syncs # << >>

\* C18 (as claimed): the upstream sync is attempted only in staging and only
\* after a bump_version that returned updated=true.
C18_SyncOnlyAfterUpdatedBump ==
    \A w \in DOMAIN pc :
        SyncAttempted(w)
            => /\ config.ENV = "staging"
               /\ BumpCalls(w) # << >>
               /\ loc[w].updated = Some(TRUE)

\* C18 (amended): the upstream sync is attempted only in staging, only on a
\* push event and only after its bump_version has returned, with updated=true
\* or updated=false alike; there every returned bump is followed by one
\* attempt before the answer.
C18_SyncOnlyAfterReturnedBump ==
    \A w \in DOMAIN pc :
        /\ SyncAttempted(w)
              => /\ config.ENV = "staging"
                 /\ IsPush(w)
                 /\ BumpCalls(w) # << >>
                 /\ loc[w].updated # None
        /\ (Answered(w) /\ IsPush(w) /\ config.ENV = "staging" /\ loc[w].updated # None)
              => Len(loc[w].syncs) = 1

C18_Witness ==
    \E w \in DOMAIN pc :
        /\ config.ENV = "staging" /\ IsPush(w) /\ Answered(w)
        /\ SyncAttempted(w)
        /\ loc[w].updated = Some(FALSE)
        /\ loc[w].cmds = <<"update_checkout", "read_pin">>

\* C19: the answer to a push event that called bump_version and got a result
\* is the reason of that result with 200 for updated=true and 400 for
\* updated=false, whether the upstream sync succeeded, raised or was not
\* attempted; the sync is attempted at most once.
C19_SyncNeverChangesTheAnswer ==
    \A w \in DOMAIN pc :
        /\ Len(loc[w].syncs) <= 1
        /\ (Answered(w) /\ IsPush(w) /\ loc[w].updated # None)
              => resp[w] = [status |-> IF loc[w].updated[1] THEN 200 ELSE 400,
                            reason |-> loc[w].reason,
                            revert_sha |-> None,
                            reported |-> ~loc[w].updated[1]]

C19_Witness ==
    \E w \in DOMAIN pc :
        /\ Answered(w) /\ IsPush(w)
        /\ loc[w].syncs = << FALSE >>
        /\ loc[w].updated = Some(TRUE)
        /\ resp[w].status = 200
        /\ resp[w].reason = Some(Reason("Updated the dependent repository."))

\* A push event to a tracked branch that names its repository.
TrackedPush(w) ==
    IsPush(w) /\ ~UntrackedPush(w) /\ Data(w).repository # None
HeadCommitId(d) ==
    IF d.head_commit.value = None THEN None ELSE d.head_commit.value[1].id
RecognizedRepo(d) ==
    \/ d.repository[1].full_name = SENTRY_REPO_UPSTREAM
    \/ config.ENV = "development" /\ d.repository[1].full_name[2] = "sentry"

\* C20: a push event to a tracked branch calls bump_version, once and with
\* the default dependent branch, the head commit id and the payload's
\* author, iff the payload has a head commit id and its repository is the
\* upstream one or, in development, one named sentry; another repository is
\* answered "Unknown repository" without a bump, and a payload without a
\* head commit id is answered as a no-op (200) without a bump.
C20_PushBumpsIffHeadAndRecognized ==
    \A w \in DOMAIN pc :
        TrackedPush(w)
            => LET d == Data(w) IN
               IF HeadCommitId(d) # None /\ RecognizedRepo(d)
               THEN BumpCalls(w) = << BumpArgs(GETSENTRY_BRANCH, HeadCommitId(d)[1],
                                               d.head_commit.value[1].author) >>
               ELSE /\ BumpCalls(w) = << >>
                    /\ Answered(w)
                    /\ IF HeadCommitId(d) # None
                       THEN resp[w].reason = Some(Reason("Unknown repository"))
                       ELSE resp[w] = respond(Reason("Commit not relevant for deploy sync."),
                                              None, 200)

====
